---- MODULE Spec2Model ----
(***************************************************************************)
(* Model of the attendance front end:                                      *)
(*   - BulkAttendancePage (roster cache, selection, optimistic bulk mark)  *)
(*   - EmployeeAttendanceDashboard (attendance fetch, filter, summary)     *)
(*   - AttendancePage (employee list: search, pagination, session cache)   *)
(*   - AddEmployee (form validation, fetchWithRetry)                       *)
(* React state is modelled as variables; every event handler, effect and   *)
(* network continuation is one action.  Strings that the code inspects     *)
(* (search, names, dates) are sequences of one-character strings.          *)
(***************************************************************************)
EXTENDS Integers, Sequences, FiniteSets, TLC

(***************************************************************************)
(* Bounds of the model                                                     *)
(***************************************************************************)
MaxTicks == 2
MaxRosterFetches == 1
MaxMarkRequests == 2
MaxDashRequests == 2
MaxDashIssued == 4
MaxListFetches == 2
MaxPageSize == 12
MaxRetries == 3

(***************************************************************************)
(* JavaScript string primitives                                            *)
(***************************************************************************)
Null == "null"

\* a nullable reference: None is null, Some(x) holds x
None == <<>>
Some(x) == <<x>>
Val(m) == m[1]

UpperChars ==
  << "A", "B", "C", "D", "E", "F", "G", "H", "I", "J", "K", "L", "M",
     "N", "O", "P", "Q", "R", "S", "T", "U", "V", "W", "X", "Y", "Z" >>

LowerChars ==
  << "a", "b", "c", "d", "e", "f", "g", "h", "i", "j", "k", "l", "m",
     "n", "o", "p", "q", "r", "s", "t", "u", "v", "w", "x", "y", "z" >>

UpperCharSet == { UpperChars[i] : i \in 1..26 }

LowerChar(c) ==
  IF c \in UpperCharSet
    THEN LowerChars[CHOOSE i \in 1..26 : UpperChars[i] = c]
    ELSE c

toLowerCase(s) == [i \in 1..Len(s) |-> LowerChar(s[i])]

includes(s, t) ==
  \E i \in 0..(Len(s) - Len(t)) : SubSeq(s, i + 1, i + Len(t)) = t

DigitChars == <<"0", "1", "2", "3", "4", "5", "6", "7", "8", "9">>

RECURSIVE NumToString(_)
NumToString(n) ==
  IF n < 10 THEN <<DigitChars[n + 1]>>
  ELSE NumToString(n \div 10) \o <<DigitChars[(n % 10) + 1]>>

padStart2(n) == IF n < 10 THEN <<"0">> \o NumToString(n) ELSE NumToString(n)

\* UTF-16 code units of the characters a date string is made of
CharCodes ==
  [ c \in {"-"} \cup { DigitChars[d + 1] : d \in 0..9 } |->
      IF c = "-" THEN 45
      ELSE 48 + (CHOOSE d \in 0..9 : DigitChars[d + 1] = c) ]

CharCode(c) == CharCodes[c]

\* JavaScript's  a <= b  on strings: code-unit-wise lexicographic order
RECURSIVE StrLeq(_, _)
StrLeq(a, b) ==
  IF a = <<>> THEN TRUE
  ELSE IF b = <<>> THEN FALSE
  ELSE LET x == CharCode(Head(a))
           y == CharCode(Head(b))
       IN  IF x < y THEN TRUE
           ELSE IF x > y THEN FALSE
           ELSE StrLeq(Tail(a), Tail(b))

(***************************************************************************)
(* BulkAttendancePage: data                                                *)
(***************************************************************************)
CACHE_DURATION == 5 * 60 * 1000
FetchTimeoutMs == 5000

Statuses == {"present", "absent", "halfday"}

\* values of the status select that the model chooses from
StatusInputs == {"", "present"}

Emp(i, n, st) == [id |-> i, name |-> n, lastStatus |-> st]

Asha == <<"A", "s", "h", "a">>
Ravi == <<"R", "a", "v", "i">>

\* bodies GET /employees/all can answer with
ServerRosters ==
  { << Emp(1, Asha, Null), Emp(2, Ravi, Null) >>,
    << Emp(2, Ravi, "absent") >> }

SearchInputs == { <<>>, <<"r", "a", "v">> }

\* getCurrentDate(): the local date as YYYY-MM-DD
FormatDate(y, m, d) ==
  NumToString(y) \o <<"-">> \o padStart2(m) \o <<"-">> \o padStart2(d)

TodayYMD == <<2024, 9, 30>>
getCurrentDate == FormatDate(TodayYMD[1], TodayYMD[2], TodayYMD[3])

\* values the date input can deliver
DateInputs == { FormatDate(2024, 9, 30), FormatDate(2024, 10, 1) }

\* clock advances the model chooses from: a short latency, just under the TTL
TickSteps == {2, CACHE_DURATION - 1}

VARIABLES
  employees, search, selectedStatus, selectedEmployees, isLoading, isMarking,
  isMobile, selectedDate, employeeCache, now, rosterFetches, markRequests,
  lastToast, ticks, cacheStoredAt

bulkVars ==
  << employees, search, selectedStatus, selectedEmployees, isLoading,
     isMarking, isMobile, selectedDate, employeeCache, now, rosterFetches,
     markRequests, lastToast, ticks, cacheStoredAt >>

\* dashHistory is a history of the GETs of the dashboard, kept to tell their
\* order: the number issued so far (each in-flight request carries its own in
\* "issued"), the request whose answer was applied last with that answer,
\* and the latest issued request whose answer has been applied
VARIABLES
  attendanceData, loading, error, searchTerm, statusFilter, summary,
  dashRequests, dashHistory

\* AttendancePage (the employee list).  Its employees, search, isLoading and
\* error hooks carry the prefix "list"; sessionCache is the sessionStorage
\* entry employees_<API_BASE_URL>, listInFlight the number of unanswered GETs;
\* sessionCacheAge is a history variable: the time in ms since that entry was
\* written (the entry itself holds no timestamp)
VARIABLES
  listEmployees, listSearch, currentPage, listIsLoading, listError,
  sessionCache, listInFlight, sessionCacheAge

\* AddEmployee: the form's hooks; addIsLoading is its isLoading hook; addToasts
\* are the toasts the latest step has shown; retryCall holds the locals of the
\* fetchWithRetry call in progress, retryOutcome how the last call ended
VARIABLES
  formData, addIsLoading, isOnline, retryCount, addToasts, retryCall,
  retryOutcome

dashVars ==
  << attendanceData, loading, error, searchTerm, statusFilter, summary,
     dashRequests, dashHistory >>

listVars ==
  << listEmployees, listSearch, currentPage, listIsLoading, listError,
     sessionCache, listInFlight, sessionCacheAge >>

addVars ==
  << formData, addIsLoading, isOnline, retryCount, addToasts, retryCall,
     retryOutcome >>

vars == << bulkVars, dashVars, listVars, addVars >>

\* what the actions of one page leave alone
exceptBulk == << dashVars, listVars, addVars >>
exceptDash == << bulkVars, listVars, addVars >>
exceptList == << bulkVars, dashVars, addVars >>
exceptAdd  == << bulkVars, dashVars, listVars >>

\* lastToast is the notification the latest step has shown (NoToast if none)
Toast(type, msg) == [type |-> type, msg |-> msg]
NoToast == Toast("none", "")

RemoveAt(s, i) == SubSeq(s, 1, i - 1) \o SubSeq(s, i + 1, Len(s))

(***************************************************************************)
(* BulkAttendancePage: derived values of a render                          *)
(***************************************************************************)
\* the date check with the comparison turned around
isDateValid_Reversed == StrLeq(getCurrentDate, selectedDate)


isDateValid == StrLeq(selectedDate, getCurrentDate)

BulkMatches(emp, s) ==
  \/ includes(toLowerCase(emp.name), toLowerCase(s))
  \/ includes(NumToString(emp.id), s)

filteredEmployees ==
  IF search = <<>> THEN employees
  ELSE SelectSeq(employees, LAMBDA emp : BulkMatches(emp, search))

selectedCount == Cardinality(selectedEmployees)
\* the button without the in-flight condition
MarkButtonDisabled_NoMarking ==
  selectedStatus = "" \/ selectedCount = 0 \/ ~isDateValid


MarkButtonDisabled ==
  selectedStatus = "" \/ selectedCount = 0 \/ isMarking \/ ~isDateValid

SelectAllChecked ==
  LET shown == Len(filteredEmployees)
  IN  selectedCount = shown /\ shown > 0

\* filteredEmployees.map(e => e.id)
EmployeeIds(emps) == { emps[k].id : k \in 1..Len(emps) }

(***************************************************************************)
(* BulkAttendancePage: roster loading                                      *)
(***************************************************************************)
CacheFresh(t) ==
  /\ employeeCache.data # None
  /\ t - Val(employeeCache.timestamp) < CACHE_DURATION

\* synchronous part of fetchEmployees, up to the first await
fetchEmployees ==
  /\ IF CacheFresh(now)
       THEN /\ employees' = Val(employeeCache.data)
            /\ isLoading' = FALSE
            /\ UNCHANGED rosterFetches
       ELSE /\ Len(rosterFetches) < MaxRosterFetches
            /\ isLoading' = TRUE
            /\ rosterFetches' = Append(rosterFetches, [start |-> now])
            /\ UNCHANGED employees
  /\ lastToast' = NoToast
  /\ UNCHANGED << employeeCache, cacheStoredAt >>

\* window resize: isMobile changes, showToast is re-created, the effect re-runs
HandleResize ==
  /\ isMobile' = ~isMobile
  /\ fetchEmployees
  /\ UNCHANGED << search, selectedStatus, selectedEmployees, isMarking,
                  selectedDate, now, markRequests, ticks >>
  /\ UNCHANGED exceptBulk

\* the data is written to the cache, the timestamp only when there is none
FetchEmployeesOk_KeepsTimestamp(i, data) ==
  /\ i \in 1..Len(rosterFetches)
  /\ data \in ServerRosters
  /\ employeeCache' =
       [ data |-> Some(data),
         timestamp |-> IF employeeCache.timestamp # None
                         THEN employeeCache.timestamp
                         ELSE Some(rosterFetches[i].start) ]
  /\ employees' = data
  /\ isLoading' = FALSE
  /\ lastToast' = NoToast
  /\ rosterFetches' = RemoveAt(rosterFetches, i)
  /\ UNCHANGED << search, selectedStatus, selectedEmployees, isMarking,
                  isMobile, selectedDate, now, markRequests, ticks >>
  /\ UNCHANGED exceptBulk

\* the GET is answered 2xx; the history variable cacheStoredAt is left to
\* the specification, which either records the write or keeps it still
FetchEmployeesOk(i, data) ==
  /\ i \in 1..Len(rosterFetches)
  /\ data \in ServerRosters
  /\ employeeCache' = [data |-> Some(data),
                        timestamp |-> Some(rosterFetches[i].start)]
  /\ employees' = data
  /\ isLoading' = FALSE
  /\ lastToast' = NoToast
  /\ rosterFetches' = RemoveAt(rosterFetches, i)
  /\ UNCHANGED << search, selectedStatus, selectedEmployees, isMarking,
                  isMobile, selectedDate, now, markRequests, ticks >>
  /\ UNCHANGED exceptBulk

RosterFailures == {"http", "network", "abort"}

\* the failure path falling back to the cache only while it is fresh
FetchEmployeesFail_FreshOnly(i, kind) ==
  /\ i \in 1..Len(rosterFetches)
  /\ kind \in RosterFailures
  /\ kind = "abort" => now - rosterFetches[i].start >= FetchTimeoutMs
  /\ lastToast' = Toast("error", "Failed to load employees")
  /\ employees' = IF CacheFresh(now) THEN Val(employeeCache.data)
                  ELSE employees
  /\ isLoading' = FALSE
  /\ rosterFetches' = RemoveAt(rosterFetches, i)
  /\ UNCHANGED << search, selectedStatus, selectedEmployees, isMarking,
                  isMobile, selectedDate, employeeCache, now, markRequests,
                  ticks, cacheStoredAt >>
  /\ UNCHANGED exceptBulk


FetchEmployeesFail(i, kind) ==
  /\ i \in 1..Len(rosterFetches)
  /\ kind \in RosterFailures
  /\ kind = "abort" => now - rosterFetches[i].start >= FetchTimeoutMs
  /\ lastToast' = Toast("error", "Failed to load employees")
  /\ employees' = IF employeeCache.data # None THEN Val(employeeCache.data)
                  ELSE employees
  /\ isLoading' = FALSE
  /\ rosterFetches' = RemoveAt(rosterFetches, i)
  /\ UNCHANGED << search, selectedStatus, selectedEmployees, isMarking,
                  isMobile, selectedDate, employeeCache, now, markRequests,
                  ticks, cacheStoredAt >>
  /\ UNCHANGED exceptBulk

Tick(d) ==
  /\ d \in TickSteps
  /\ ticks < MaxTicks
  /\ ticks' = ticks + 1
  /\ now' = now + d
  /\ lastToast' = NoToast
  /\ UNCHANGED << employees, search, selectedStatus, selectedEmployees,
                  isLoading, isMarking, isMobile, selectedDate,
                  employeeCache, rosterFetches, markRequests, cacheStoredAt >>
  /\ UNCHANGED exceptBulk

(***************************************************************************)
(* BulkAttendancePage: form controls (rendered only when not loading)      *)
(***************************************************************************)
SetSearch(s) ==
  /\ ~isLoading
  /\ s \in SearchInputs
  /\ search' = s
  /\ lastToast' = NoToast
  /\ UNCHANGED << employees, selectedStatus, selectedEmployees, isLoading,
                  isMarking, isMobile, selectedDate, employeeCache, now,
                  rosterFetches, markRequests, ticks, cacheStoredAt >>
  /\ UNCHANGED exceptBulk

SetSelectedStatus(st) ==
  /\ ~isLoading
  /\ st \in StatusInputs
  /\ selectedStatus' = st
  /\ lastToast' = NoToast
  /\ UNCHANGED << employees, search, selectedEmployees, isLoading, isMarking,
                  isMobile, selectedDate, employeeCache, now, rosterFetches,
                  markRequests, ticks, cacheStoredAt >>
  /\ UNCHANGED exceptBulk

handleDateChange(newDate) ==
  /\ ~isLoading
  /\ newDate \in DateInputs
  /\ selectedDate' = newDate
  /\ IF ~StrLeq(newDate, getCurrentDate)
       THEN lastToast' = Toast("error", "Cannot mark attendance for future dates")
       ELSE lastToast' = NoToast
  /\ UNCHANGED << employees, search, selectedStatus, selectedEmployees,
                  isLoading, isMarking, isMobile, employeeCache, now,
                  rosterFetches, markRequests, ticks, cacheStoredAt >>
  /\ UNCHANGED exceptBulk

SelectionFrame ==
  /\ lastToast' = NoToast
  /\ UNCHANGED << employees, search, selectedStatus, isLoading, isMarking,
                  isMobile, selectedDate, employeeCache, now, rosterFetches,
                  markRequests, ticks, cacheStoredAt >>
  /\ UNCHANGED exceptBulk

\* row checkbox of a rendered employee
handleEmployeeSelect(employeeId) ==
  /\ ~isLoading
  /\ employeeId \in EmployeeIds(filteredEmployees)
  /\ selectedEmployees' =
       IF employeeId \in selectedEmployees
         THEN selectedEmployees \ {employeeId}
         ELSE selectedEmployees \cup {employeeId}
  /\ SelectionFrame

\* header checkbox: the event carries the negation of the rendered value
handleSelectAll ==
  /\ ~isLoading
  /\ selectedEmployees' =
       IF ~SelectAllChecked
         THEN EmployeeIds(filteredEmployees)
         ELSE {}
  /\ SelectionFrame

(***************************************************************************)
(* BulkAttendancePage: bulk marking                                        *)
(***************************************************************************)
MarkFrame ==
  /\ UNCHANGED << search, selectedStatus, isLoading, isMobile, selectedDate,
                  employeeCache, now, rosterFetches, ticks, cacheStoredAt >>
  /\ UNCHANGED exceptBulk
\* the optimistic update applied to every employee, selected or not
OptimisticUpdate_All(emps, ids, st) ==
  [k \in 1..Len(emps) |-> [emps[k] EXCEPT !.lastStatus = st]]


OptimisticUpdate(emps, ids, st) ==
  [k \in 1..Len(emps) |->
     IF emps[k].id \in ids THEN [emps[k] EXCEPT !.lastStatus = st]
     ELSE emps[k]]

\* body of markBulkAttendance up to the await of the POST
markBulkAttendance ==
  IF selectedStatus = "" THEN
    /\ lastToast' = Toast("error", "Please select attendance status")
    /\ UNCHANGED << employees, selectedEmployees, isMarking, markRequests >>
  ELSE IF Cardinality(selectedEmployees) = 0 THEN
    /\ lastToast' = Toast("error", "Please select at least one employee")
    /\ UNCHANGED << employees, selectedEmployees, isMarking, markRequests >>
  ELSE IF ~isDateValid THEN
    /\ lastToast' = Toast("error", "Cannot mark attendance for future dates")
    /\ UNCHANGED << employees, selectedEmployees, isMarking, markRequests >>
  ELSE
    /\ Len(markRequests) < MaxMarkRequests
    /\ isMarking' = TRUE
    /\ employees' = OptimisticUpdate(employees, selectedEmployees, selectedStatus)
    /\ markRequests' = Append(markRequests,
                              [employeeIds   |-> selectedEmployees,
                               prevEmployees |-> employees,
                               status        |-> selectedStatus,
                               date          |-> selectedDate])
    /\ lastToast' = NoToast
    /\ UNCHANGED << selectedEmployees >>

\* click on the Mark Attendance button (a disabled button delivers no click)
ClickMarkAttendance ==
  /\ ~isLoading
  /\ ~MarkButtonDisabled
  /\ markBulkAttendance
  /\ MarkFrame

\* markBulkAttendance called as a function, without the button in front of it
CallMarkBulkAttendance ==
  /\ markBulkAttendance
  /\ MarkFrame
\* the success path without clearing the selection
MarkResponseOk_KeepsSelection(i) ==
  /\ i \in 1..Len(markRequests)
  /\ lastToast' = Toast("success", "Marked employees")
  /\ isMarking' = FALSE
  /\ markRequests' = RemoveAt(markRequests, i)
  /\ UNCHANGED << employees, selectedEmployees >>
  /\ MarkFrame

\* a committed submission also stored in the roster cache
MarkResponseOk_WritesCache(i) ==
  /\ i \in 1..Len(markRequests)
  /\ lastToast' = Toast("success", "Marked employees")
  /\ selectedEmployees' = {}
  /\ isMarking' = FALSE
  /\ markRequests' = RemoveAt(markRequests, i)
  /\ employeeCache' = [employeeCache EXCEPT !.data = Some(employees)]
  /\ UNCHANGED << employees, search, selectedStatus, isLoading, isMobile,
                  selectedDate, now, rosterFetches, ticks, cacheStoredAt >>
  /\ UNCHANGED exceptBulk

\* the POST is answered with a 2xx status
MarkResponseOk(i) ==
  /\ i \in 1..Len(markRequests)
  /\ lastToast' = Toast("success", "Marked employees")
  /\ selectedEmployees' = {}
  /\ isMarking' = FALSE
  /\ markRequests' = RemoveAt(markRequests, i)
  /\ UNCHANGED << employees >>
  /\ MarkFrame

ErrorBodies == {"message", "nomessage", "notjson"}

ErrorText(body) ==
  CASE body = "message"   -> "server message"
    [] body = "nomessage" -> "Failed to mark attendance"
    [] body = "notjson"   -> "JSON syntax error"

\* the submitting flag left set when the error body is not JSON
MarkResponseNotOk_StaysMarking(i, body) ==
  /\ i \in 1..Len(markRequests)
  /\ body \in ErrorBodies
  /\ employees' = markRequests[i].prevEmployees
  /\ lastToast' = Toast("error", ErrorText(body))
  /\ isMarking' = (body = "notjson")
  /\ markRequests' = RemoveAt(markRequests, i)
  /\ UNCHANGED << selectedEmployees >>
  /\ MarkFrame

\* the POST is answered with a non-2xx status
MarkResponseNotOk(i, body) ==
  /\ i \in 1..Len(markRequests)
  /\ body \in ErrorBodies
  /\ employees' = markRequests[i].prevEmployees
  /\ lastToast' = Toast("error", ErrorText(body))
  /\ isMarking' = FALSE
  /\ markRequests' = RemoveAt(markRequests, i)
  /\ UNCHANGED << selectedEmployees >>
  /\ MarkFrame

\* the POST rejects: no response at all (connection failure)
MarkRequestRejects(i) ==
  /\ i \in 1..Len(markRequests)
  /\ lastToast' = Toast("error", "Failed to fetch")
  /\ isMarking' = FALSE
  /\ markRequests' = RemoveAt(markRequests, i)
  /\ UNCHANGED << employees, selectedEmployees >>
  /\ MarkFrame

(***************************************************************************)
(* EmployeeAttendanceDashboard                                             *)
(***************************************************************************)
sPresent == <<"p", "r", "e", "s", "e", "n", "t">>
sAbsent  == <<"a", "b", "s", "e", "n", "t">>
sHalfday == <<"h", "a", "l", "f", "d", "a", "y">>
sHalfDay == <<"h", "a", "l", "f", "-", "d", "a", "y">>
sAll     == <<"a", "l", "l">>
sUnknown == <<"U", "n", "k", "n", "o", "w", "n">>
sNA      == <<"N", "/", "A">>

\* a || b on strings and numbers: the empty string and 0 are falsy
Or(a, b) == IF a = <<>> THEN b ELSE a

RawItem(id, n, st, ast, dep, pos, role) ==
  [ employeeId |-> id, employeeName |-> n, status |-> st,
    attendanceStatus |-> ast, department |-> dep, position |-> pos,
    role |-> role ]

\* bodies GET /attendance/all-today-status can answer with; a field that the
\* entry does not carry is the empty string (or 0 for the id)
AttendancePayloads ==
  { << RawItem(1, Asha, <<"P", "r", "e", "s", "e", "n", "t">>, <<>>,
               <<"H", "R">>, <<>>, <<>>),
       RawItem(12, Ravi, <<>>, <<"H", "A", "L", "F", "D", "A", "Y">>,
               <<>>, <<>>, <<"D", "e", "v">>),
       RawItem(2, <<"D", "e", "v", "i">>, <<>>, <<>>,
               <<"O", "p", "s">>, <<"H", "R">>, <<>>) >>,
    << RawItem(2, Ravi, sPresent, sAbsent, <<>>, <<"D", "e", "v">>, <<>>),
       RawItem(0, <<>>, <<"l", "a", "t", "e">>, <<>>, <<>>, <<>>, <<>>) >> }

\* the token compared before lower-casing
NormalizeStatus_ExactToken(item) ==
  LET raw == Or(Or(item.status, item.attendanceStatus), sAbsent)
  IN  IF raw = sHalfday THEN sHalfDay ELSE toLowerCase(raw)

NormalizeStatus(item) ==
  LET raw == toLowerCase(Or(Or(item.status, item.attendanceStatus), sAbsent))
  IN  IF raw = sHalfday THEN sHalfDay ELSE raw

\* one element of processedData; date and lastCheckIn are display-only
ProcessItem(item) ==
  [ employeeId   |-> item.employeeId,
    employeeName |-> Or(item.employeeName, sUnknown),
    status       |-> NormalizeStatus(item),
    department   |-> Or(Or(item.department, item.role), sNA),
    position     |-> Or(Or(item.position, item.role), sNA) ]

processedData(data) == [k \in 1..Len(data) |-> ProcessItem(data[k])]

SearchTermInputs ==
  { <<>>, <<"r", "a", "v">>, <<"1">>, <<"H", "R">>, <<"d", "e", "v">> }

StatusFilterInputs == { sAll, sPresent, sAbsent, sHalfDay }
\* the search comparing the name without lower-casing it
DashSearchMatches_CaseSensitive(item, term) ==
  \/ includes(item.employeeName, term)
  \/ includes(NumToString(item.employeeId), term)
  \/ includes(toLowerCase(item.department), term)
  \/ includes(toLowerCase(item.position), term)


DashSearchMatches(item, term) ==
  \/ includes(toLowerCase(item.employeeName), term)
  \/ includes(NumToString(item.employeeId), term)
  \/ includes(toLowerCase(item.department), term)
  \/ includes(toLowerCase(item.position), term)

\* a filter that also drops the first record the search matched
DashFilter_SkipsFirst(data, searchT, statusF) ==
  LET matched ==
        IF searchT # <<>>
          THEN SelectSeq(data,
                 LAMBDA item : DashSearchMatches(item, toLowerCase(searchT)))
          ELSE data
      bySearch ==
        IF searchT # <<>> /\ matched # <<>> THEN Tail(matched) ELSE matched
  IN  IF statusF # sAll
        THEN SelectSeq(bySearch, LAMBDA item : item.status = statusF)
        ELSE bySearch

DashFilter(data, searchT, statusF) ==
  LET bySearch ==
        IF searchT # <<>>
          THEN SelectSeq(data,
                 LAMBDA item : DashSearchMatches(item, toLowerCase(searchT)))
          ELSE data
  IN  IF statusF # sAll
        THEN SelectSeq(bySearch, LAMBDA item : item.status = statusF)
        ELSE bySearch

filteredData == DashFilter(attendanceData, searchTerm, statusFilter)

CountStatus(data, st) ==
  Len(SelectSeq(data, LAMBDA item : item.status = st))

\* a summary whose total is the sum of the three counts
calculateSummary_TotalOfKnown(data) ==
  [ present |-> CountStatus(data, sPresent),
    absent  |-> CountStatus(data, sAbsent),
    halfDay |-> CountStatus(data, sHalfDay),
    total   |-> CountStatus(data, sPresent) + CountStatus(data, sAbsent)
                  + CountStatus(data, sHalfDay) ]

calculateSummary(data) ==
  [ present |-> CountStatus(data, sPresent),
    absent  |-> CountStatus(data, sAbsent),
    halfDay |-> CountStatus(data, sHalfDay),
    total   |-> Len(data) ]

BulkFrame == UNCHANGED exceptDash

\* fetchAttendanceData up to the await of the GET (interval tick, tab shown
\* again, or the Refresh button)
fetchAttendanceData ==
  /\ Len(dashRequests) < MaxDashRequests
  /\ dashHistory.issued < MaxDashIssued
  /\ loading' = TRUE
  /\ error' = None
  /\ dashRequests' =
       Append(dashRequests, [issued |-> dashHistory.issued + 1])
  /\ dashHistory' = [dashHistory EXCEPT !.issued = @ + 1]
  /\ UNCHANGED << attendanceData, searchTerm, statusFilter, summary >>
  /\ BulkFrame

\* the answer of a request is dropped when the answer of a request issued
\* after it has been applied
FetchAttendanceOk_DropsStale(i, data) ==
  /\ i \in 1..Len(dashRequests)
  /\ data \in AttendancePayloads
  /\ LET kept == IF dashRequests[i].issued < dashHistory.newest
                   THEN attendanceData ELSE processedData(data)
     IN  /\ attendanceData' = kept
         /\ summary' = calculateSummary(
                         DashFilter(kept, searchTerm, statusFilter))
  /\ loading' = FALSE
  /\ dashRequests' = RemoveAt(dashRequests, i)
  /\ dashHistory' =
       [ dashHistory EXCEPT
           !.applied = dashRequests[i].issued,
           !.answer = Some(data),
           !.newest = IF dashRequests[i].issued > @
                        THEN dashRequests[i].issued ELSE @ ]
  /\ UNCHANGED << error, searchTerm, statusFilter >>
  /\ BulkFrame

\* the GET is answered 2xx with a JSON array
FetchAttendanceOk(i, data) ==
  /\ i \in 1..Len(dashRequests)
  /\ data \in AttendancePayloads
  /\ attendanceData' = processedData(data)
  /\ loading' = FALSE
  /\ summary' = calculateSummary(
                  DashFilter(processedData(data), searchTerm, statusFilter))
  /\ dashRequests' = RemoveAt(dashRequests, i)
  /\ dashHistory' =
       [ dashHistory EXCEPT
           !.applied = dashRequests[i].issued,
           !.answer = Some(data),
           !.newest = IF dashRequests[i].issued > @
                        THEN dashRequests[i].issued ELSE @ ]
  /\ UNCHANGED << error, searchTerm, statusFilter >>
  /\ BulkFrame

DashFailures == {"Server returned 500", "Failed to fetch",
                 "Invalid data format received - expected array"}

FetchAttendanceFail(i, msg) ==
  /\ i \in 1..Len(dashRequests)
  /\ msg \in DashFailures
  /\ error' = Some(msg)
  /\ loading' = FALSE
  /\ dashRequests' = RemoveAt(dashRequests, i)
  /\ UNCHANGED << attendanceData, searchTerm, statusFilter, summary,
                  dashHistory >>
  /\ BulkFrame

\* what a summary card shows: the placeholder "--" (None) or the counts
SummaryCards == IF loading THEN None ELSE Some(summary)

\* what the attendance table shows: the skeleton, the error box, or the rows
\* of filteredData (an empty list stands for the "no records" notice)
AttendanceTable ==
  IF loading THEN [kind |-> "skeleton", rows |-> <<>>]
  ELSE IF error # None THEN [kind |-> "error", rows |-> <<>>]
  ELSE [kind |-> "rows", rows |-> filteredData]

\* the search box and the status select are disabled while loading; the
\* summary effect runs on the new filteredData
SetSearchTerm(t) ==
  /\ ~loading
  /\ t \in SearchTermInputs
  /\ searchTerm' = t
  /\ summary' = calculateSummary(DashFilter(attendanceData, t, statusFilter))
  /\ UNCHANGED << attendanceData, loading, error, statusFilter,
                  dashRequests, dashHistory >>
  /\ BulkFrame

SetStatusFilter(f) ==
  /\ ~loading
  /\ f \in StatusFilterInputs
  /\ statusFilter' = f
  /\ summary' = calculateSummary(DashFilter(attendanceData, searchTerm, f))
  /\ UNCHANGED << attendanceData, loading, error, searchTerm, dashRequests,
                  dashHistory >>
  /\ BulkFrame

(***************************************************************************)
(* AttendancePage: the employee list                                       *)
(***************************************************************************)
employeesPerPage == 10

Devi == <<"D", "e", "v", "i">>
sBaker == <<"B", "a", "k", "e", "r">>
sSales == <<"S", "a", "l", "e", "s">>

ListEmp(i, n, r) == [id |-> i, name |-> n, role |-> r]

ListNames == << Asha, Ravi, Devi >>
ListRoles == << sSales, sBaker >>

\* bodies GET /employees/all can answer with: a roster of three pages and a
\* short one with an entry that carries no name
LongRoster ==
  [ i \in 1..23 |->
      ListEmp(i, ListNames[((i - 1) % 3) + 1], ListRoles[((i - 1) % 2) + 1]) ]

ShortRoster ==
  << ListEmp(2, Ravi, sSales), ListEmp(7, Null, sBaker),
     ListEmp(30, Devi, sBaker) >>

ListRosters == { LongRoster, ShortRoster }

ListSearchInputs == { <<>>, <<"a">>, <<"1">>, <<"B", "A", "K">> }

\* Array.prototype.slice(start, end) on a sequence
SliceIndex(x, len) ==
  IF x < 0 THEN (IF len + x < 0 THEN 0 ELSE len + x)
  ELSE (IF x > len THEN len ELSE x)

slice(arr, start, end) ==
  SubSeq(arr, SliceIndex(start, Len(arr)) + 1, SliceIndex(end, Len(arr)))

\* Math.ceil(n / d) for n >= 0, d > 0
CeilDiv(n, d) == (n + d - 1) \div d

\* emp.name?.toLowerCase().includes(..) || emp.id?.toString().includes(..)
ListMatches(emp, s) ==
  \/ emp.name # Null /\ includes(toLowerCase(emp.name), toLowerCase(s))
  \/ includes(NumToString(emp.id), toLowerCase(s))

ListFilter(emps, s) == SelectSeq(emps, LAMBDA emp : ListMatches(emp, s))

listFilteredEmployees == ListFilter(listEmployees, listSearch)

\* pages that start one record late
PageOf_StartsLate(records, page, perPage) ==
  LET indexOfLastEmployee  == page * perPage
      indexOfFirstEmployee == indexOfLastEmployee - perPage + 1
  IN  slice(records, indexOfFirstEmployee, indexOfLastEmployee)

\* the page of a collection: slice(indexOfFirst, indexOfLast)
PageOf(records, page, perPage) ==
  LET indexOfLastEmployee  == page * perPage
      indexOfFirstEmployee == indexOfLastEmployee - perPage
  IN  slice(records, indexOfFirstEmployee, indexOfLastEmployee)

paginatedEmployees ==
  PageOf(listFilteredEmployees, currentPage, employeesPerPage)

totalPages == CeilDiv(Len(listFilteredEmployees), employeesPerPage)

\* the pagination bar is rendered
PaginationShown ==
  /\ ~listIsLoading
  /\ listError = None
  /\ Len(listFilteredEmployees) > employeesPerPage

\* fetchEmployees of the list up to the await of the GET
listFetchEmployees ==
  /\ listInFlight < MaxListFetches
  /\ listIsLoading' = TRUE
  /\ listError' = None
  /\ listInFlight' = listInFlight + 1
  /\ UNCHANGED << listEmployees, listSearch, currentPage, sessionCache,
                  sessionCacheAge >>
  /\ UNCHANGED exceptList

\* the Refresh button (disabled while loading)
ClickRefresh ==
  /\ ~listIsLoading
  /\ listFetchEmployees

\* the Retry link of the error message
ClickRetry ==
  /\ ~listIsLoading
  /\ listError # None
  /\ listFetchEmployees

\* the window gains focus or the tab becomes visible again
HandleFocus == listFetchEmployees

\* the GET is answered 2xx: setEmployees, sessionStorage.setItem, finally
ListFetchOk(data) ==
  /\ listInFlight > 0
  /\ data \in ListRosters
  /\ listEmployees' = data
  /\ sessionCache' = Some(data)
  /\ sessionCacheAge' = Some(0)
  /\ listIsLoading' = FALSE
  /\ listInFlight' = listInFlight - 1
  /\ UNCHANGED << listSearch, currentPage, listError >>
  /\ UNCHANGED exceptList

ListFailures == {"HTTP error! status: 500", "Failed to fetch"}

\* the GET is answered non-2xx or rejects: catch, finally
ListFetchFail(msg) ==
  /\ listInFlight > 0
  /\ msg \in ListFailures
  /\ listError' = Some(msg)
  /\ listIsLoading' = FALSE
  /\ listInFlight' = listInFlight - 1
  /\ UNCHANGED << listEmployees, listSearch, currentPage, sessionCache,
                  sessionCacheAge >>
  /\ UNCHANGED exceptList

\* a search change that leaves the page index alone
handleSearchChange_KeepsPage(value) ==
  /\ value \in ListSearchInputs
  /\ listSearch' = value
  /\ UNCHANGED << listEmployees, currentPage, listIsLoading, listError,
                  sessionCache, listInFlight, sessionCacheAge >>
  /\ UNCHANGED exceptList

handleSearchChange(value) ==
  /\ value \in ListSearchInputs
  /\ listSearch' = value
  /\ currentPage' = 1
  /\ UNCHANGED << listEmployees, listIsLoading, listError, sessionCache,
                  sessionCacheAge,
                  listInFlight >>
  /\ UNCHANGED exceptList

handlePageChange(newPage) ==
  /\ currentPage' = newPage
  /\ UNCHANGED << listEmployees, listSearch, listIsLoading, listError,
                  sessionCache, listInFlight, sessionCacheAge >>
  /\ UNCHANGED exceptList

\* the Previous button (disabled on page 1)
ClickPreviousPage ==
  /\ PaginationShown
  /\ currentPage # 1
  /\ handlePageChange(currentPage - 1)

\* the Next button (disabled on the last page and beyond)
ClickNextPage ==
  /\ PaginationShown
  /\ ~(currentPage >= totalPages)
  /\ handlePageChange(currentPage + 1)

(***************************************************************************)
(* AddEmployee: strings of the form                                        *)
(***************************************************************************)
IsSpace(c) == c = " "

RECURSIVE trimStart(_)
trimStart(s) ==
  IF s # <<>> /\ IsSpace(Head(s)) THEN trimStart(Tail(s)) ELSE s

RECURSIVE trimEnd(_)
trimEnd(s) ==
  IF s # <<>> /\ IsSpace(s[Len(s)]) THEN trimEnd(SubSeq(s, 1, Len(s) - 1))
  ELSE s

trim(s) == trimEnd(trimStart(s))

DigitSet == { DigitChars[d + 1] : d \in 0..9 }

AllIn(s, chars) == \A k \in 1..Len(s) : s[k] \in chars

\* the messages of the errors an attempt can end with
ErrorMessages ==
  [ alreadyExists |->
      << "E", "m", "p", "l", "o", "y", "e", "e", " ", "a", "l", "r",
      "e", "a", "d", "y", " ", "e", "x", "i", "s", "t", "s" >>,
    http500 |->
      << "H", "T", "T", "P", " ", "e", "r", "r", "o", "r", "!", " ",
      "s", "t", "a", "t", "u", "s", ":", " ", "5", "0", "0" >>,
    failedToFetch |->
      << "F", "a", "i", "l", "e", "d", " ", "t", "o", " ", "f", "e",
      "t", "c", "h" >>,
    aborted |->
      << "s", "i", "g", "n", "a", "l", " ", "i", "s", " ", "a", "b",
      "o", "r", "t", "e", "d", " ", "w", "i", "t", "h", "o", "u", "t",
      " ", "r", "e", "a", "s", "o", "n" >>,
    badJson |->
      << "U", "n", "e", "x", "p", "e", "c", "t", "e", "d", " ", "e",
      "n", "d", " ", "o", "f", " ", "J", "S", "O", "N", " ", "i", "n",
      "p", "u", "t" >> ]

\* the texts handleSubmit looks for in a message, and those it shows
SubmitTexts ==
  [ alreadyExists |->
      << "a", "l", "r", "e", "a", "d", "y", " ", "e", "x", "i", "s",
      "t", "s" >>,
    invalid |->
      <<"I", "n", "v", "a", "l", "i", "d">>,
    cors |->
      <<"C", "O", "R", "S">>,
    failedToAdd |->
      << "F", "a", "i", "l", "e", "d", " ", "t", "o", " ", "a", "d",
      "d", " ", "e", "m", "p", "l", "o", "y", "e", "e" >>,
    timedOut |->
      << "R", "e", "q", "u", "e", "s", "t", " ", "t", "i", "m", "e",
      "d", " ", "o", "u", "t", ".", " ", "T", "h", "e", " ", "s", "e",
      "r", "v", "e", "r", " ", "m", "i", "g", "h", "t", " ", "b", "e",
      " ", "b", "u", "s", "y", ".", " ", "P", "l", "e", "a", "s", "e",
      " ", "t", "r", "y", " ", "a", "g", "a", "i", "n", "." >>,
    networkError |->
      << "N", "e", "t", "w", "o", "r", "k", " ", "e", "r", "r", "o",
      "r", ".", " ", "P", "l", "e", "a", "s", "e", " ", "c", "h", "e",
      "c", "k", " ", "y", "o", "u", "r", " ", "c", "o", "n", "n", "e",
      "c", "t", "i", "o", "n", "." >>,
    serverConfig |->
      << "S", "e", "r", "v", "e", "r", " ", "c", "o", "n", "f", "i",
      "g", "u", "r", "a", "t", "i", "o", "n", " ", "i", "s", "s", "u",
      "e", ".", " ", "P", "l", "e", "a", "s", "e", " ", "c", "o", "n",
      "t", "a", "c", "t", " ", "s", "u", "p", "p", "o", "r", "t", "." >> ]

\* isNaN(string): Number(string) is NaN unless the trimmed string is empty
\* or a StringNumericLiteral (a decimal with optional sign and exponent,
\* Infinity, or a 0x / 0o / 0b literal)
isNaN(s) ==
  LET t == trim(s)
      u == IF t # <<>> /\ Head(t) \in {"+", "-"} THEN Tail(t) ELSE t
      HexDigitSet ==
        DigitSet \cup {"a", "b", "c", "d", "e", "f", "A", "B", "C", "D", "E", "F"}
      IsMantissa(m) ==
        /\ AllIn(m, DigitSet \cup {"."})
        /\ Cardinality({ k \in 1..Len(m) : m[k] = "." }) <= 1
        /\ \E k \in 1..Len(m) : m[k] \in DigitSet
      IsExponent(x) ==
        LET digits == IF x # <<>> /\ Head(x) \in {"+", "-"} THEN Tail(x) ELSE x
        IN  digits # <<>> /\ AllIn(digits, DigitSet)
      IsUnsignedDecimal ==
        \/ IsMantissa(u)
        \/ \E k \in 1..Len(u) :
             /\ u[k] \in {"e", "E"}
             /\ IsMantissa(SubSeq(u, 1, k - 1))
             /\ IsExponent(SubSeq(u, k + 1, Len(u)))
      IsRadixLiteral ==
        /\ Len(t) >= 3
        /\ t[1] = "0"
        /\ \/ t[2] \in {"x", "X"} /\ AllIn(SubSeq(t, 3, Len(t)), HexDigitSet)
           \/ t[2] \in {"o", "O"}
                /\ AllIn(SubSeq(t, 3, Len(t)), { DigitChars[d + 1] : d \in 0..7 })
           \/ t[2] \in {"b", "B"} /\ AllIn(SubSeq(t, 3, Len(t)), {"0", "1"})
  IN  ~ \/ t = <<>>
        \/ u = <<"I", "n", "f", "i", "n", "i", "t", "y">>
        \/ IsUnsignedDecimal
        \/ IsRadixLiteral

\* /^\+?[0-9\- ]{6,15}$/.test(s)
PhonePatternTest(s) ==
  LET rest == IF s # <<>> /\ Head(s) = "+" THEN Tail(s) ELSE s
  IN  /\ Len(rest) >= 6
      /\ Len(rest) <= 15
      /\ AllIn(rest, DigitSet \cup {"-", " "})

(***************************************************************************)
(* AddEmployee: data                                                       *)
(***************************************************************************)
DefaultRetries == 3
DefaultTimeout == 8000

EmptyForm == [name |-> <<>>, role |-> <<>>, salary |-> <<>>, number |-> <<>>]

FormFields == {"name", "role", "salary", "number"}

\* values a change event of each input can carry; the salary input has
\* type "number", whose value is a valid floating-point number or empty
FieldInputs ==
  [ name   |-> { <<" ">>, Asha },
    role   |-> { sBaker },
    salary |-> { <<"1", "2">>, <<"1", "e", "3">>, <<"-", "5">> },
    number |-> { <<"1", "2", "3", "4", "5">>,
                 <<"+", "9", "1", " ", "9", "8", "-", "7", "6">> } ]

\* what the server can answer an attempt with: the status line, and what
\* reading the body gives
Responses ==
  { [ok |-> TRUE,  status |-> 200, body |-> "json"],
    [ok |-> TRUE,  status |-> 200, body |-> "notjson"],
    [ok |-> FALSE, status |-> 409, body |-> "message"],
    [ok |-> FALSE, status |-> 500, body |-> "notjson"] }

\* an Error object; attempt is the number of the attempt that raised it
ErrorOf(errName, msg, k) == [name |-> errName, message |-> msg, attempt |-> k]

\* the error the body of a response that is not returned as JSON leads to
BodyError(resp, k) ==
  IF resp.ok THEN ErrorOf("SyntaxError", ErrorMessages.badJson, k)
  ELSE IF resp.body = "message" THEN ErrorOf("Error", ErrorMessages.alreadyExists, k)
  ELSE ErrorOf("Error", ErrorMessages.http500, k)

(***************************************************************************)
(* AddEmployee: the form                                                   *)
(***************************************************************************)
\* a toast: what it is about, the text taken from an error (if any) and the
\* number in its "(retried n times)" suffix (0: no suffix)
AddToast(type, about, text, retried) ==
  [type |-> type, about |-> about, text |-> text, retried |-> retried]

\* the locals of the fetchWithRetry call in progress; attempts counts the
\* requests the call has sent
IdleCall ==
  [ pc |-> "idle", caller |-> "none", retries |-> 0, timeout |-> 0, i |-> 0,
    lastError |-> None, elapsed |-> 0, backoffMs |-> 0, response |-> None,
    attempts |-> 0, closureRetryCount |-> 0 ]

NoOutcome ==
  [kind |-> "none", error |-> None, attempts |-> 0, retries |-> 0]

Returned(call) ==
  [ kind |-> "returned", error |-> None, attempts |-> call.attempts,
    retries |-> call.retries ]

Threw(call, err) ==
  [ kind |-> "threw", error |-> err, attempts |-> call.attempts,
    retries |-> call.retries ]

handleChange(id, value) ==
  /\ id \in FormFields
  /\ formData' = [formData EXCEPT ![id] = value]
  /\ addToasts' = <<>>
  /\ UNCHANGED << addIsLoading, isOnline, retryCount, retryCall,
                  retryOutcome >>
  /\ UNCHANGED exceptAdd

handleOnline ==
  /\ isOnline' = TRUE
  /\ addToasts' = <<>>
  /\ UNCHANGED << formData, addIsLoading, retryCount, retryCall,
                  retryOutcome >>
  /\ UNCHANGED exceptAdd

handleOffline ==
  /\ isOnline' = FALSE
  /\ addToasts' = << AddToast("error", "offline", <<>>, 0) >>
  /\ UNCHANGED << formData, addIsLoading, retryCount, retryCall,
                  retryOutcome >>
  /\ UNCHANGED exceptAdd

\* the errors array without the check of the phone number
ValidationErrors_NoPhoneCheck ==
  (IF trim(formData.name) = <<>> THEN << "name" >> ELSE <<>>)
  \o (IF trim(formData.salary) = <<>> \/ isNaN(formData.salary)
        THEN << "salary" >> ELSE <<>>)

\* the errors array of handleSubmit
ValidationErrors ==
  (IF trim(formData.name) = <<>> THEN << "name" >> ELSE <<>>)
  \o (IF trim(formData.salary) = <<>> \/ isNaN(formData.salary)
        THEN << "salary" >> ELSE <<>>)
  \o (IF trim(formData.number) # <<>>
         /\ ~PhonePatternTest(trim(formData.number))
        THEN << "number" >> ELSE <<>>)

(***************************************************************************)
(* AddEmployee: fetchWithRetry                                             *)
(***************************************************************************)
\* the loop body up to the await of fetch: setRetryCount(i + 1), timer armed
StartAttempt(call, index) ==
  [ call EXCEPT !.pc = "fetch", !.i = index, !.elapsed = 0,
                !.backoffMs = 0, !.response = None,
                !.attempts = call.attempts + 1 ]

\* the call returns or throws into its caller: handleSubmit's continuation
\* (toast, form reset, finally) or a bare caller that keeps the outcome
Finish(outcome) ==
  /\ retryCall' = IdleCall
  /\ retryOutcome' = outcome
  /\ IF retryCall.caller = "submit"
       THEN /\ addIsLoading' = FALSE
            /\ IF outcome.kind = "returned"
                 THEN /\ formData' = EmptyForm
                      /\ addToasts' = << AddToast("success", "added", <<>>, 0) >>
                 ELSE LET err == Val(outcome.error)
                          errorMessage ==
                            IF err.name = "AbortError" THEN SubmitTexts.timedOut
                            ELSE IF includes(err.message, SubmitTexts.alreadyExists)
                              THEN err.message
                            ELSE IF includes(err.message, SubmitTexts.invalid)
                              THEN err.message
                            ELSE IF includes(err.message, ErrorMessages.failedToFetch)
                              THEN SubmitTexts.networkError
                            ELSE IF includes(err.message, SubmitTexts.cors)
                              THEN SubmitTexts.serverConfig
                            ELSE SubmitTexts.failedToAdd
                          seen == retryCall.closureRetryCount
                      IN  /\ addToasts' =
                               << AddToast("error", "failure", errorMessage,
                                           IF seen > 1 THEN seen ELSE 0) >>
                          /\ UNCHANGED formData
       ELSE /\ addToasts' = <<>>
            /\ UNCHANGED << formData, addIsLoading >>

\* the catch block with a wait of one second whatever the attempt
FailAttempt_ConstantBackoff(err) ==
  IF retryCall.i = retryCall.retries - 1
    THEN /\ Finish(Threw(retryCall, Some(err)))
         /\ UNCHANGED << isOnline, retryCount >>
    ELSE /\ retryCall' = [ retryCall EXCEPT
                             !.pc = "backoff", !.lastError = Some(err),
                             !.elapsed = 0, !.response = None,
                             !.backoffMs = 1000 ]
         /\ addToasts' = <<>>
         /\ UNCHANGED << formData, addIsLoading, isOnline, retryCount,
                         retryOutcome >>

\* the catch block and what follows it in the loop
FailAttempt(err) ==
  IF retryCall.i = retryCall.retries - 1
    THEN /\ Finish(Threw(retryCall, Some(err)))
         /\ UNCHANGED << isOnline, retryCount >>
    ELSE /\ retryCall' = [ retryCall EXCEPT
                             !.pc = "backoff", !.lastError = Some(err),
                             !.elapsed = 0, !.response = None,
                             !.backoffMs = 1000 * (retryCall.i + 1) ]
         /\ addToasts' = <<>>
         /\ UNCHANGED << formData, addIsLoading, isOnline, retryCount,
                         retryOutcome >>

\* fetch resolves with the status line of a response: clearTimeout
FetchResolves(resp) ==
  /\ retryCall.pc = "fetch"
  /\ resp \in Responses
  /\ retryCall' = [retryCall EXCEPT !.pc = "body", !.response = Some(resp)]
  /\ addToasts' = <<>>
  /\ UNCHANGED << formData, addIsLoading, isOnline, retryCount,
                  retryOutcome >>
  /\ UNCHANGED exceptAdd

\* fetch rejects: the connection failed
FetchRejects ==
  /\ retryCall.pc = "fetch"
  /\ FailAttempt(ErrorOf("TypeError", ErrorMessages.failedToFetch, retryCall.attempts))
  /\ UNCHANGED exceptAdd

\* the timer of the attempt fires: controller.abort() rejects the fetch
AbortFires ==
  /\ retryCall.pc = "fetch"
  /\ retryCall.elapsed >= retryCall.timeout
  /\ FailAttempt(ErrorOf("AbortError", ErrorMessages.aborted, retryCall.attempts))
  /\ UNCHANGED exceptAdd

\* response.json() settles: the JSON is returned, or the error is raised
BodyRead ==
  /\ retryCall.pc = "body"
  /\ LET resp == Val(retryCall.response)
     IN  IF resp.ok /\ resp.body = "json"
           THEN /\ Finish(Returned(retryCall))
                /\ UNCHANGED << isOnline, retryCount >>
           ELSE FailAttempt(BodyError(resp, retryCall.attempts))
  /\ UNCHANGED exceptAdd

\* the backoff timer fires: the next iteration of the loop begins
BackoffEnds ==
  /\ retryCall.pc = "backoff"
  /\ retryCall.elapsed >= retryCall.backoffMs
  /\ retryCall' = StartAttempt(retryCall, retryCall.i + 1)
  /\ retryCount' = retryCall.i + 2
  /\ addToasts' = <<>>
  /\ UNCHANGED << formData, addIsLoading, isOnline, retryOutcome >>
  /\ UNCHANGED exceptAdd

RetryTickMs == 1000

\* time passes for the call in progress.  A pending timer (the abort timer
\* while the fetch is awaited, the backoff timer) fires when it is due; the
\* body of a response is read with no timer armed
RetryTick ==
  /\ \/ /\ retryCall.pc = "fetch"
        /\ retryCall.elapsed + RetryTickMs <= retryCall.timeout
     \/ /\ retryCall.pc = "backoff"
        /\ retryCall.elapsed + RetryTickMs <= retryCall.backoffMs
     \/ /\ retryCall.pc = "body"
        /\ retryCall.elapsed <= retryCall.timeout
  /\ retryCall' = [retryCall EXCEPT !.elapsed = @ + RetryTickMs]
  /\ addToasts' = <<>>
  /\ UNCHANGED << formData, addIsLoading, isOnline, retryCount,
                  retryOutcome >>
  /\ UNCHANGED exceptAdd

\* fetchWithRetry up to its first await; with retries = 0 the loop is not
\* entered and the undefined lastError is thrown at once
fetchWithRetry(caller, retries, timeout, seenRetryCount) ==
  IF retries <= 0
    THEN /\ retryOutcome' =
              [ kind |-> "threw", error |-> None, attempts |-> 0,
                retries |-> retries ]
         /\ UNCHANGED << retryCall, retryCount >>
    ELSE /\ retryCall' =
              StartAttempt([IdleCall EXCEPT !.caller = caller,
                                            !.retries = retries,
                                            !.timeout = timeout,
                                            !.closureRetryCount =
                                               seenRetryCount], 0)
         /\ retryCount' = 1
         /\ retryOutcome' = NoOutcome

\* handleSubmit up to its await (setRetryCount(0) is overwritten by the
\* setRetryCount(1) of the first attempt before the next render); one call
\* of fetchWithRetry is followed at a time
handleSubmit ==
  /\ IF ~isOnline
       THEN /\ addToasts' = << AddToast("error", "no-connection", <<>>, 0) >>
            /\ UNCHANGED << formData, addIsLoading, isOnline, retryCount,
                            retryCall, retryOutcome >>
     ELSE IF ValidationErrors # <<>>
       THEN /\ addToasts' =
                 [ k \in 1..Len(ValidationErrors) |->
                     AddToast("error", ValidationErrors[k], <<>>, 0) ]
            /\ UNCHANGED << formData, addIsLoading, isOnline, retryCount,
                            retryCall, retryOutcome >>
     ELSE /\ retryCall.pc = "idle"
          /\ addIsLoading' = TRUE
          /\ fetchWithRetry("submit", DefaultRetries, DefaultTimeout,
                            retryCount)
          /\ addToasts' = <<>>
          /\ UNCHANGED << formData, isOnline >>
  /\ UNCHANGED exceptAdd

\* the form is submitted through the page: the button is enabled and the
\* required inputs hold a value
SubmitForm ==
  /\ ~addIsLoading
  /\ isOnline
  /\ formData.name # <<>>
  /\ formData.salary # <<>>
  /\ handleSubmit

\* fetchWithRetry called on its own, with the arguments of the caller
CallFetchWithRetry(retries, timeout) ==
  /\ retryCall.pc = "idle"
  /\ fetchWithRetry("direct", retries, timeout, 0)
  /\ addToasts' = <<>>
  /\ UNCHANGED << formData, addIsLoading, isOnline >>
  /\ UNCHANGED exceptAdd

(***************************************************************************)
(* Specifications                                                          *)
(***************************************************************************)
\* every page right after mount: each mount effect has started its fetch
InitBulk ==
  /\ employees = <<>>
  /\ search = <<>>
  /\ selectedStatus = ""
  /\ selectedEmployees = {}
  /\ isLoading = TRUE
  /\ isMarking = FALSE
  /\ isMobile = FALSE
  /\ selectedDate = getCurrentDate
  /\ employeeCache = [data |-> None, timestamp |-> None]
  /\ now = 0
  /\ rosterFetches = << [start |-> 0] >>
  /\ markRequests = <<>>
  /\ lastToast = NoToast
  /\ ticks = 0
  /\ cacheStoredAt = None

InitDash ==
  /\ attendanceData = <<>>
  /\ loading = TRUE
  /\ error = None
  /\ searchTerm = <<>>
  /\ statusFilter = sAll
  /\ summary = [present |-> 0, absent |-> 0, halfDay |-> 0, total |-> 0]
  /\ dashRequests = << [issued |-> 1] >>
  /\ dashHistory =
       [issued |-> 1, applied |-> 0, newest |-> 0, answer |-> None]

\* the list mounted with the session storage holding cached (None: no entry)
InitList(cached, age) ==
  /\ sessionCache = cached
  /\ sessionCacheAge = age
  /\ listEmployees = IF cached # None THEN Val(cached) ELSE <<>>
  /\ listSearch = <<>>
  /\ currentPage = 1
  /\ listIsLoading = TRUE
  /\ listError = None
  /\ listInFlight = 1

\* isOnline starts as navigator.onLine
InitAdd(online) ==
  /\ formData = EmptyForm
  /\ addIsLoading = FALSE
  /\ isOnline = online
  /\ retryCount = 0
  /\ addToasts = <<>>
  /\ retryCall = IdleCall
  /\ retryOutcome = NoOutcome

Init ==
  /\ InitBulk
  /\ InitDash
  /\ InitList(None, None)
  /\ InitAdd(TRUE)

\* the bulk page with its clock, roster reloads, selection and marking; the
\* search box and the date input are exercised in SpecHandler
Next ==
  \/ HandleResize
  \/ \E i \in 1..MaxRosterFetches : \E data \in ServerRosters :
       FetchEmployeesOk(i, data) /\ UNCHANGED cacheStoredAt
  \/ \E i \in 1..MaxRosterFetches : \E kind \in RosterFailures :
       FetchEmployeesFail(i, kind)
  \/ \E d \in TickSteps : Tick(d)
  \/ \E st \in StatusInputs : SetSelectedStatus(st)
  \/ \E id \in 1..2 : handleEmployeeSelect(id)
  \/ handleSelectAll
  \/ ClickMarkAttendance
  \/ \E i \in 1..MaxMarkRequests : MarkResponseOk(i)
  \/ \E i \in 1..MaxMarkRequests : \E body \in ErrorBodies :
       MarkResponseNotOk(i, body)
  \/ \E i \in 1..MaxMarkRequests : MarkRequestRejects(i)

Spec == Init /\ [][Next]_vars

\* the same page when every POST in flight is eventually answered or rejected
\* by the network
MarkRequestSettles ==
  \E i \in 1..MaxMarkRequests :
    \/ MarkResponseOk(i)
    \/ \E body \in ErrorBodies : MarkResponseNotOk(i, body)
    \/ MarkRequestRejects(i)

\* (the clock and the window size stand still: neither touches a submission)
NextLive ==
  \/ \E i \in 1..MaxRosterFetches : \E data \in ServerRosters :
       FetchEmployeesOk(i, data) /\ UNCHANGED cacheStoredAt
  \/ \E i \in 1..MaxRosterFetches : \E kind \in RosterFailures :
       FetchEmployeesFail(i, kind)
  \/ \E st \in StatusInputs : SetSelectedStatus(st)
  \/ \E id \in 1..2 : handleEmployeeSelect(id)
  \/ handleSelectAll
  \/ ClickMarkAttendance
  \/ MarkRequestSettles

SpecLive == Init /\ [][NextLive]_vars /\ WF_vars(MarkRequestSettles)

\* the bulk page with every form control and with markBulkAttendance also
\* reachable as a plain function; the clock and the window size stand still
NextHandler ==
  \/ \E i \in 1..MaxRosterFetches : \E data \in ServerRosters :
       FetchEmployeesOk(i, data) /\ UNCHANGED cacheStoredAt
  \/ \E i \in 1..MaxRosterFetches : \E kind \in RosterFailures :
       FetchEmployeesFail(i, kind)
  \/ \E s \in SearchInputs : SetSearch(s)
  \/ \E st \in StatusInputs : SetSelectedStatus(st)
  \/ \E d \in DateInputs : handleDateChange(d)
  \/ \E id \in 1..2 : handleEmployeeSelect(id)
  \/ handleSelectAll
  \/ ClickMarkAttendance
  \/ CallMarkBulkAttendance
  \/ \E i \in 1..MaxMarkRequests : MarkResponseOk(i)
  \/ \E i \in 1..MaxMarkRequests : \E body \in ErrorBodies :
       MarkResponseNotOk(i, body)
  \/ \E i \in 1..MaxMarkRequests : MarkRequestRejects(i)

SpecHandler == Init /\ [][NextHandler]_vars

\* the roster and its cache alone, with the history variable cacheStoredAt
\* recording the clock reading at which each cache write is executed
NextCache ==
  \/ HandleResize
  \/ \E i \in 1..MaxRosterFetches : \E data \in ServerRosters :
       FetchEmployeesOk(i, data) /\ cacheStoredAt' = Some(now)
  \/ \E i \in 1..MaxRosterFetches : \E kind \in RosterFailures :
       FetchEmployeesFail(i, kind)
  \/ \E d \in TickSteps : Tick(d)

SpecCache == Init /\ [][NextCache]_vars

\* the attendance dashboard
NextDash ==
  \/ fetchAttendanceData
  \/ \E i \in 1..MaxDashRequests : \E data \in AttendancePayloads :
       FetchAttendanceOk(i, data)
  \/ \E i \in 1..MaxDashRequests : \E msg \in DashFailures :
       FetchAttendanceFail(i, msg)
  \/ \E t \in SearchTermInputs : SetSearchTerm(t)
  \/ \E f \in StatusFilterInputs : SetStatusFilter(f)

SpecDash == Init /\ [][NextDash]_vars

\* the employee list, mounted in a session that may have visited it before
NextList ==
  \/ ClickRefresh
  \/ ClickRetry
  \/ HandleFocus
  \/ \E data \in ListRosters : ListFetchOk(data)
  \/ \E msg \in ListFailures : ListFetchFail(msg)
  \/ \E value \in ListSearchInputs : handleSearchChange(value)
  \/ ClickPreviousPage
  \/ ClickNextPage

\* how long ago the session's entry was written when the page is mounted
SessionAges == { 1000, CACHE_DURATION + 1000 }

InitListSession ==
  /\ InitBulk
  /\ InitDash
  /\ \/ InitList(None, None)
     \/ \E r \in ListRosters : \E age \in SessionAges :
          InitList(Some(r), Some(age))
  /\ InitAdd(TRUE)

SpecList == InitListSession /\ [][NextList]_vars

\* the derived views (filter, page, summary) over loaded collections: both
\* pages have finished loading some roster, and only the view controls move
DashCollections == { processedData(p) : p \in AttendancePayloads }

InitViews ==
  /\ InitBulk
  /\ attendanceData \in DashCollections
  /\ searchTerm \in SearchTermInputs
  /\ statusFilter \in StatusFilterInputs
  /\ summary = calculateSummary(filteredData)
  /\ loading = FALSE
  /\ error = None
  /\ dashRequests = <<>>
  /\ \E p \in AttendancePayloads :
       /\ attendanceData = processedData(p)
       /\ dashHistory =
            [issued |-> 1, applied |-> 1, newest |-> 1, answer |-> Some(p)]
  /\ listEmployees \in ListRosters
  /\ sessionCache = Some(listEmployees)
  /\ sessionCacheAge = Some(0)
  /\ listSearch \in ListSearchInputs
  /\ currentPage = 1
  /\ listIsLoading = FALSE
  /\ listError = None
  /\ listInFlight = 0
  /\ InitAdd(TRUE)

NextViews ==
  \/ \E t \in SearchTermInputs : SetSearchTerm(t)
  \/ \E f \in StatusFilterInputs : SetStatusFilter(f)
  \/ \E value \in ListSearchInputs : handleSearchChange(value)
  \/ ClickPreviousPage
  \/ ClickNextPage

SpecViews == InitViews /\ [][NextViews]_vars

\* the add-employee form: typing, connectivity events, submitting, and the
\* steps of the request that a submission starts
InitAddPage ==
  /\ InitBulk
  /\ InitDash
  /\ InitList(None, None)
  /\ \E online \in BOOLEAN : InitAdd(online)

RetrySteps ==
  \/ \E resp \in Responses : FetchResolves(resp)
  \/ FetchRejects
  \/ AbortFires
  \/ BodyRead
  \/ BackoffEnds
  \/ RetryTick

NextAdd ==
  \/ \E id \in FormFields : \E value \in FieldInputs[id] : handleChange(id, value)
  \/ handleOnline
  \/ handleOffline
  \/ SubmitForm
  \/ RetrySteps

SpecAdd == InitAddPage /\ [][NextAdd]_vars

\* the handlers of the form called with any arguments: handleSubmit whatever
\* the state of the button and of the inputs, handleChange with values no
\* input of the page produces (the fields that handleSubmit checks)
HandlerFieldInputs ==
  [ name   |-> { <<" ">>, Asha },
    salary |-> { <<"1", "2">>, <<"1", "2", "p", "x">> },
    number |-> { <<"1", "2", "3", "4", "5">>,
                 <<"+", "9", "1", " ", "9", "8", "-", "7", "6">> } ]

NextAddHandler ==
  \/ \E id \in DOMAIN HandlerFieldInputs : \E value \in HandlerFieldInputs[id] :
       handleChange(id, value)
  \/ handleOnline
  \/ handleOffline
  \/ handleSubmit
  \/ RetrySteps

SpecAddHandler == InitAddPage /\ [][NextAddHandler]_vars

\* fetchWithRetry on its own, for any number of retries and timeout
NextRetry ==
  \/ \E retries \in 0 .. MaxRetries : \E timeout \in { 2000, DefaultTimeout } :
       CallFetchWithRetry(retries, timeout)
  \/ RetrySteps

SpecRetry == Init /\ [][NextRetry]_vars

(***************************************************************************)
(* Steps of the bulk page as an observer sees them                         *)
(***************************************************************************)
\* a Mark request has just been sent
SubmitStep == Len(markRequests') = Len(markRequests) + 1

\* request i has just settled
Settled(i) ==
  /\ i \in 1..Len(markRequests)
  /\ markRequests' = RemoveAt(markRequests, i)

NonOkTexts ==
  {"server message", "Failed to mark attendance", "JSON syntax error"}

\* request i was answered with a non-2xx status
NonOkStep(i) ==
  /\ Settled(i)
  /\ lastToast'.type = "error"
  /\ lastToast'.msg \in NonOkTexts

\* request i rejected without a response
RejectStep(i) ==
  /\ Settled(i)
  /\ lastToast' = Toast("error", "Failed to fetch")

\* request i was answered with a 2xx status
SuccessStep(i) ==
  /\ Settled(i)
  /\ lastToast'.type = "success"

LoadErrorToast == Toast("error", "Failed to load employees")

ValidationTexts ==
  { "Please select attendance status",
    "Please select at least one employee",
    "Cannot mark attendance for future dates" }

\* the date inputs that lie after TodayYMD on the calendar
FutureDateInputs == { FormatDate(2024, 10, 1) }

(***************************************************************************)
(* Claims                                                                  *)
(***************************************************************************)

\* C1: when a bulk submission is answered with a non-2xx status, the
\* employee collection afterwards equals the collection as it was just
\* before the submit, and the Selection Set is exactly the set of ids that
\* was selected at submit time.
C1_RollbackRestoresSnapshotAndSelection ==
  [][ \A i \in 1..MaxMarkRequests :
        NonOkStep(i) =>
          /\ employees' = markRequests[i].prevEmployees
          /\ selectedEmployees' = markRequests[i].employeeIds ]_vars

\* C2: when a bulk submission rejects (network or timeout error), the
\* pre-submission snapshot is restored, the error is shown, and the
\* Selection Set is kept.
C2_RejectRestoresSnapshot ==
  [][ \A i \in 1..MaxMarkRequests :
        RejectStep(i) =>
          /\ employees' = markRequests[i].prevEmployees
          /\ lastToast'.type = "error"
          /\ selectedEmployees' = selectedEmployees ]_vars

C4_InvalidSubmitSendsNothing ==
  [][ ( \/ selectedStatus = ""
        \/ selectedEmployees = {}
        \/ selectedDate \in FutureDateInputs )
      =>
      /\ ~SubmitStep
      /\ (lastToast'.type = "error" /\ lastToast'.msg \in ValidationTexts)
           => /\ employees' = employees
              /\ selectedEmployees' = selectedEmployees
              /\ isMarking' = isMarking
              /\ markRequests' = markRequests ]_vars

\* C4 witness: markBulkAttendance has just refused an empty selection
C4_Witness ==
  /\ lastToast = Toast("error", "Please select at least one employee")
  /\ selectedStatus # ""
  /\ selectedEmployees = {}

\* C5: right after a valid submit the page is Submitting, every employee in
\* the Selection Set has lastStatus equal to the requested status, and every
\* other employee is unchanged.
C5_OptimisticUpdate ==
  [][ SubmitStep =>
        /\ isMarking'
        /\ Len(employees') = Len(employees)
        /\ \A k \in 1..Len(employees) :
             IF employees[k].id \in selectedEmployees
               THEN /\ employees'[k].lastStatus = selectedStatus
                    /\ employees'[k].id = employees[k].id
                    /\ employees'[k].name = employees[k].name
               ELSE employees'[k] = employees[k] ]_vars

\* C5 witness: a submission is in flight, a selected employee shows the
\* requested status it did not have before, an unselected one is untouched
C5_Witness ==
  /\ isMarking
  /\ Len(markRequests) = 1
  /\ Len(employees) = Len(markRequests[1].prevEmployees)
  /\ \E k \in 1..Len(employees) :
       /\ employees[k].id \in markRequests[1].employeeIds
       /\ employees[k].lastStatus = markRequests[1].status
       /\ markRequests[1].prevEmployees[k].lastStatus # markRequests[1].status
  /\ \E k \in 1..Len(employees) :
       /\ employees[k].id \notin markRequests[1].employeeIds
       /\ employees[k] = markRequests[1].prevEmployees[k]

\* C6: a 2xx answer empties the Selection Set and leaves the employee
\* collection, with its optimistic lastStatus values, as it is.
C6_SuccessClearsSelectionKeepsOptimistic ==
  [][ \A i \in 1..MaxMarkRequests :
        SuccessStep(i) =>
          /\ selectedEmployees' = {}
          /\ employees' = employees
          /\ \A k \in 1..Len(employees) :
               ( /\ employees[k].id \in markRequests[i].employeeIds
                 /\ employees[k].lastStatus = markRequests[i].status )
               => employees'[k].lastStatus = markRequests[i].status ]_vars

\* C6 witness: a submission has just been confirmed, the selection is empty
\* and an employee still carries the optimistic status
C6_Witness ==
  /\ lastToast.type = "success"
  /\ selectedEmployees = {}
  /\ ~isMarking
  /\ \E k \in 1..Len(employees) : employees[k].lastStatus = "present"

\* C7: while a submission is in flight, toggle, selectAll and clearAll do
\* not change the Selection Set.
C7_SelectionFrozenWhileSubmitting ==
  [][ (isMarking /\ markRequests' = markRequests)
        => selectedEmployees' = selectedEmployees ]_vars

\* C8: a roster load is served from the cache exactly if the cache holds a
\* value that was stored less than 300000 ms ago.
C8_ServedIffStoredWithinTTL ==
  [][ (isMobile' # isMobile) =>
        ( (rosterFetches' = rosterFetches)
          <=> ( /\ employeeCache.data # None
                /\ now - Val(cacheStoredAt) < 300000 ) ) ]_vars

\* C9: when a roster fetch fails and the cache holds a value, the employee
\* collection becomes that value, however old, and the cache is unchanged.
C9_FailureFallsBackToCache ==
  [][ ( /\ lastToast' = LoadErrorToast
        /\ Len(rosterFetches') < Len(rosterFetches)
        /\ employeeCache.data # None )
      => /\ employees' = Val(employeeCache.data)
         /\ employeeCache' = employeeCache ]_vars

\* C9 witness: a fetch has just failed, the cache entry is older than the
\* TTL, and the page shows it
C9_Witness ==
  /\ lastToast = LoadErrorToast
  /\ employeeCache.data # None
  /\ now - Val(employeeCache.timestamp) >= CACHE_DURATION
  /\ employees = Val(employeeCache.data)
  /\ ~isLoading

\* a record passes if the search term is empty or one of name, stringified
\* id, department, position contains it regardless of letter case, and the
\* status filter is "all" or is the record's status
ContainsIgnoringCase(s, t) ==
  \E i \in 0..(Len(s) - Len(t)) :
    \A j \in 1..Len(t) : LowerChar(s[i + j]) = LowerChar(t[j])

PassesFilter(item) ==
  /\ \/ searchTerm = <<>>
     \/ \E f \in { item.employeeName, NumToString(item.employeeId),
                   item.department, item.position } :
          ContainsIgnoringCase(f, searchTerm)
  /\ \/ statusFilter = sAll
     \/ item.status = statusFilter

\* out lists exactly the passing records of src, in the order of src
IsOrderedSelection(out, src) ==
  \E f \in [1..Len(out) -> 1..Len(src)] :
    /\ \A k \in 1..Len(out) : out[k] = src[f[k]]
    /\ \A k \in 1..(Len(out) - 1) : f[k] < f[k + 1]
    /\ { f[k] : k \in 1..Len(out) } =
         { n \in 1..Len(src) : PassesFilter(src[n]) }

\* C10: the dashboard's filtered result holds exactly the records that pass
\* the search term and the status filter, in the order of the attendance
\* collection; filtering never changes the attendance collection itself.
C10_FilterSelectsExactlyMatching ==
  /\ [] IsOrderedSelection(filteredData, attendanceData)
  /\ [][ (searchTerm' # searchTerm \/ statusFilter' # statusFilter)
           => attendanceData' = attendanceData ]_vars

\* C10 witness: both a search term and a status filter are set, and the
\* result keeps some records and drops others
C10_Witness ==
  /\ ~loading
  /\ searchTerm # <<>>
  /\ statusFilter # sAll
  /\ Len(filteredData) >= 1
  /\ Len(filteredData) < Len(attendanceData)

(***************************************************************************)
(* Claims about the employee list                                          *)
(***************************************************************************)
\* C11: on the employee list every employee whose role contains the search
\* term, regardless of letter case, is in the filtered result (also when
\* neither its name nor its id contains the term).
C11_RoleMatchIsListed ==
  \A k \in 1..Len(listEmployees) :
    ( /\ listSearch # <<>>
      /\ ContainsIgnoringCase(listEmployees[k].role, listSearch) )
    => \E j \in 1..Len(listFilteredEmployees) :
         listFilteredEmployees[j] = listEmployees[k]

\* C12: filtering is idempotent on both pages: applying the filter, with the
\* same search term and status filter, to its own result returns that result.
C12_FilterIdempotent ==
  /\ DashFilter(filteredData, searchTerm, statusFilter) = filteredData
  /\ ListFilter(listFilteredEmployees, listSearch) = listFilteredEmployees

\* C12 witness: on both pages the filter keeps some records and drops others,
\* with a search term and a status filter set
C12_Witness ==
  /\ searchTerm # <<>>
  /\ statusFilter # sAll
  /\ filteredData # <<>>
  /\ filteredData # attendanceData
  /\ listSearch # <<>>
  /\ listFilteredEmployees # <<>>
  /\ listFilteredEmployees # listEmployees

\* the records of positions (k-1)*P+1 .. k*P of a collection, as far as it goes
ExpectedPage(records, k, P) ==
  LET N  == Len(records)
      lo == IF (k - 1) * P < N THEN (k - 1) * P ELSE N
      hi == IF k * P < N THEN k * P ELSE N
  IN  [ j \in 1..(hi - lo) |-> records[lo + j] ]

\* the least number of pages of size P that hold N records: ceil(N / P)
PagesNeeded(N, P) ==
  CHOOSE m \in 0..N : m * P >= N /\ (m = 0 \/ (m - 1) * P < N)

RECURSIVE ConcatPages(_, _, _)
ConcatPages(records, k, P) ==
  IF k = 0 THEN <<>>
  ELSE ConcatPages(records, k - 1, P) \o PageOf(records, k, P)

PageSizes == 1..MaxPageSize

\* C13: the page shown is the slice [(k-1)*P, k*P) of the filtered collection
\* for the page index k and the page size P = 10; and for every page size the
\* pages 1..ceil(N/P), put one after the other, are the filtered collection:
\* same records, same order, none twice, none missing.
C13_PagesPartitionFiltered ==
  /\ paginatedEmployees =
       ExpectedPage(listFilteredEmployees, currentPage, employeesPerPage)
  /\ \A P \in PageSizes \cup {employeesPerPage} :
       LET N == Len(listFilteredEmployees)
       IN  /\ \A k \in 1..PagesNeeded(N, P) :
                PageOf(listFilteredEmployees, k, P) =
                  ExpectedPage(listFilteredEmployees, k, P)
           /\ ConcatPages(listFilteredEmployees, PagesNeeded(N, P), P) =
                listFilteredEmployees

\* C13 witness: the third, partly filled page of a 23-record collection
C13_Witness ==
  /\ currentPage = 3
  /\ Len(listFilteredEmployees) = 23
  /\ Len(paginatedEmployees) = 3
  /\ paginatedEmployees[1] = listFilteredEmployees[21]

\* C14: every step that changes the search term of the employee list leaves
\* the page index at 1, whatever page was shown before the step.
C14_SearchChangeResetsPage ==
  [][ listSearch' # listSearch => currentPage' = 1 ]_vars

\* C14 witness: a search term is set, the first page is shown and the
\* filtered list has more pages to go to
C14_Witness ==
  /\ listSearch # <<>>
  /\ currentPage = 1
  /\ totalPages > 1
  /\ PaginationShown

(***************************************************************************)
(* Claims about the dashboard's summary and ingest                         *)
(***************************************************************************)
CanonicalStatuses == { sPresent, sAbsent, sHalfDay }

NumberWithStatus(records, st) ==
  Cardinality({ k \in 1..Len(records) : records[k].status = st })

\* C15: the summary of the filtered records counts, under present, absent and
\* halfDay, the records whose status is exactly 'present', 'absent' and
\* 'half-day', and its total is the number of records; when every record has
\* one of the three statuses the three counts add up to the total.
C15_SummaryCountsByStatus ==
  /\ summary.present = NumberWithStatus(filteredData, sPresent)
  /\ summary.absent  = NumberWithStatus(filteredData, sAbsent)
  /\ summary.halfDay = NumberWithStatus(filteredData, sHalfDay)
  /\ summary.total   = Len(filteredData)
  /\ (\A k \in 1..Len(filteredData) :
        filteredData[k].status \in CanonicalStatuses)
     => summary.present + summary.absent + summary.halfDay = summary.total

\* C15 witness: a summary of three records, one of each of the three statuses
C15_Witness ==
  /\ ~loading
  /\ summary.total = 3
  /\ summary.present = 1
  /\ summary.absent = 1
  /\ summary.halfDay = 1

EqualsIgnoringCase(s, t) ==
  /\ Len(s) = Len(t)
  /\ \A j \in 1..Len(s) : LowerChar(s[j]) = LowerChar(t[j])

\* the status an entry is ingested with, as far as C16 fixes it: the field
\* status, or else attendanceStatus, is the one read; 'halfday' in any letter
\* case becomes 'half-day'; no status field at all becomes 'absent'
IngestedAsC16(item, st) ==
  LET read == IF item.status # <<>> THEN item.status
              ELSE item.attendanceStatus
  IN  IF read = <<>> THEN st = sAbsent
      ELSE IF EqualsIgnoringCase(read, sHalfday) THEN st = sHalfDay
      ELSE EqualsIgnoringCase(st, read)

IsIngestOf(data, payload) ==
  /\ Len(data) = Len(payload)
  /\ \A k \in 1..Len(payload) : data[k].employeeId = payload[k].employeeId

\* C16: whenever a response is ingested, every record of the new attendance
\* collection has the status of its entry read from status or else from
\* attendanceStatus, with 'halfday' (any letter case) turned into 'half-day'
\* and an entry without a status field turned into 'absent'.
C16_IngestNormalizesStatus ==
  [][ attendanceData' # attendanceData =>
        \E payload \in AttendancePayloads :
          /\ IsIngestOf(attendanceData', payload)
          /\ \A k \in 1..Len(payload) :
               IngestedAsC16(payload[k], attendanceData'[k].status) ]_vars

\* C16 witness: the collection ingested from an entry with attendanceStatus
\* "HALFDAY" and from an entry without a status field
C16_Witness ==
  /\ \E k \in 1..Len(attendanceData) :
       /\ attendanceData[k].employeeName = Ravi
       /\ attendanceData[k].status = sHalfDay
  /\ \E k \in 1..Len(attendanceData) :
       /\ attendanceData[k].employeeName = Devi
       /\ attendanceData[k].status = sAbsent

\* C17: every record held in the dashboard's attendance collection has one of
\* the statuses present, absent, half-day (a status value that is none of
\* them was replaced by 'absent' on ingest).
C17_HeldStatusesAreCanonical ==
  \A k \in 1..Len(attendanceData) :
    attendanceData[k].status \in CanonicalStatuses

\* the parts of C18 that concern counting and the result of a call
C18_AttemptsAndResult ==
  /\ retryCall.attempts <= retryCall.retries
  /\ retryOutcome.attempts <= IF retryOutcome.retries > 0
                                THEN retryOutcome.retries ELSE 0
  /\ retryOutcome.kind = "returned" => retryCall.pc = "idle"
  /\ (retryOutcome.kind = "threw" /\ retryOutcome.retries > 0) =>
       /\ retryOutcome.attempts = retryOutcome.retries
       /\ Val(retryOutcome.error).attempt = retryOutcome.attempts

\* the part of C18 that bounds an attempt in time: an attempt in progress has
\* not lasted longer than the timeout of the call
C18_AttemptWithinTimeout ==
  retryCall.pc \in {"fetch", "body"} => retryCall.elapsed <= retryCall.timeout

\* C18: fetchWithRetry makes at most maxRetries attempts; once an attempt has
\* succeeded its JSON is returned and no further attempt is made; an attempt
\* never lasts longer than timeoutMs (it is aborted and counts as failed); a
\* call whose attempts all failed fails with the error of the last attempt.
C18_RetryContract ==
  /\ C18_AttemptsAndResult
  /\ C18_AttemptWithinTimeout

\* what one step does to the backoff of the call in progress, k being the
\* number of attempts made so far
C19_BackoffStep ==
  LET k == retryCall.attempts
      inAttempt == retryCall.pc \in {"fetch", "body"}
      failed == /\ inAttempt
                /\ retryCall'.pc \notin {"fetch", "body"}
                /\ retryOutcome'.kind # "returned"
  IN  /\ (failed /\ k < retryCall.retries) =>
           /\ retryCall'.pc = "backoff"
           /\ retryCall'.backoffMs = k * 1000
           /\ retryCall'.elapsed = 0
      /\ (failed /\ k >= retryCall.retries) =>
           /\ retryCall'.pc = "idle"
           /\ retryOutcome'.kind = "threw"
      /\ (retryCall.pc = "backoff" /\ retryCall'.pc # "backoff") =>
           /\ retryCall.elapsed = k * 1000
           /\ retryCall'.pc = "fetch"
           /\ retryCall'.attempts = k + 1
      /\ (retryCall'.pc = "backoff" /\ retryCall.pc # "backoff") => failed

\* C19: the wait after the k-th failed attempt of fetchWithRetry (k from 1)
\* lasts k * 1000 ms and is followed by the next attempt; a failed attempt
\* that is the last one is followed by no wait: the error is thrown at once.
C19_BackoffIsLinearAndBetweenAttempts == [][C19_BackoffStep]_vars

\* the wait after the second failed attempt of three has lasted its 2000 ms
C19_Witness ==
  /\ retryCall.pc = "backoff"
  /\ retryCall.attempts = 2
  /\ retryCall.retries = 3
  /\ retryCall.elapsed = 2000

\* the step in which the submission's request learns that it was answered
\* with an HTTP error status
C20_HttpErrorAnswered ==
  /\ retryCall.caller = "submit"
  /\ retryCall.pc = "body"
  /\ ~Val(retryCall.response).ok
  /\ retryCall'.pc # "body"

\* C20: when POST /employees/add is answered with an HTTP 4xx/5xx status the
\* request is not sent again: the call ends there and the failure is shown
\* (a write is retried for timeouts only).
C20_HttpErrorIsNotRetried ==
  [][ C20_HttpErrorAnswered =>
        /\ retryCall'.pc = "idle"
        /\ retryOutcome'.kind = "threw"
        /\ addToasts' # <<>>
        /\ ~addIsLoading' ]_vars

\* the form would be refused by handleSubmit
C21_Refused ==
  \/ ~isOnline
  \/ trim(formData.name) = <<>>
  \/ trim(formData.salary) = <<>>
  \/ isNaN(formData.salary)
  \/ trim(formData.number) # <<>> /\ ~PhonePatternTest(trim(formData.number))

\* the toasts of a refusal by handleSubmit
C21_RefusalToasts ==
  /\ addToasts' # <<>>
  /\ \A k \in 1..Len(addToasts') :
       /\ addToasts'[k].type = "error"
       /\ addToasts'[k].about \in {"no-connection", "name", "salary", "number"}

\* C21: while the add-employee form has an empty name, an empty or
\* non-numeric salary or a phone number outside the pattern, or the page is
\* offline, no step starts a request, and the step in which handleSubmit
\* reports the refusal leaves the form fields, the loading flag and the
\* request state unchanged.
C21_InvalidSubmitIsLocal ==
  [][ C21_Refused =>
        /\ ~(retryCall.pc = "idle" /\ retryCall'.pc # "idle")
        /\ C21_RefusalToasts =>
             /\ formData' = formData
             /\ addIsLoading' = addIsLoading
             /\ retryCall' = retryCall
             /\ retryCount' = retryCount ]_vars

\* handleSubmit has just refused a salary that is not a number, online, with
\* a name and nothing in flight
C21_Witness ==
  /\ isOnline
  /\ formData.name = Asha
  /\ formData.salary = <<"1", "2", "p", "x">>
  /\ Len(addToasts) = 1
  /\ addToasts[1].about = "salary"
  /\ ~addIsLoading
  /\ retryCall.pc = "idle"

\* C22: the attendance collection held is the (processed) answer of the
\* request whose successful answer arrived last, whatever the order in which
\* the requests were issued: when a request issued earlier is answered after
\* one issued later, the earlier request's data is what is held afterwards.
C22_ArrivalOrderWins ==
  dashHistory.applied # 0 =>
    attendanceData = processedData(Val(dashHistory.answer))

\* the answer of the first request arrived after that of the second, with
\* different data, and is what the dashboard holds
C22_Witness ==
  /\ dashHistory.applied = 1
  /\ dashHistory.newest = 2
  /\ attendanceData = processedData(Val(dashHistory.answer))
  /\ Len(attendanceData) = 2
  /\ dashRequests = <<>>

\* C23: whenever a GET of the dashboard is in flight, the summary cards show
\* the placeholder and not the counts, also when several refreshes overlap.
C23_SummaryWithheldWhileFetching ==
  dashRequests # <<>> => SummaryCards = None

\* the display part of C24: an initial load has completed and a refresh is in
\* flight; the table shows the rows of the data held
C24_KeepsShowingData ==
  (dashHistory.applied # 0 /\ error = None /\ dashRequests # <<>>) =>
    AttendanceTable = [kind |-> "rows", rows |-> filteredData]

\* the replacement part of C24: the attendance collection changes only in a
\* step that applies the successful answer of a request
C24_ReplacedOnlyOnSuccess ==
  attendanceData' # attendanceData =>
    /\ dashHistory'.applied # dashHistory.applied
    /\ Len(dashRequests') = Len(dashRequests) - 1
    /\ attendanceData' = processedData(Val(dashHistory'.answer))

\* C24: during a refresh that follows a completed initial load the dashboard
\* keeps showing the data it holds while the GET is in flight, and the data
\* held is replaced only by the successful answer of a request (a failed
\* refresh leaves it as it was).
C24_BackgroundRefreshKeepsData ==
  /\ []C24_KeepsShowingData
  /\ [][C24_ReplacedOnlyOnSuccess]_vars

\* the replacement part alone, as a property
C24_ReplacementPart == [][C24_ReplacedOnlyOnSuccess]_vars

\* the step in which roster fetch i is answered successfully
C25_FetchSucceeds(i) ==
  /\ i \in 1..Len(rosterFetches)
  /\ rosterFetches' = RemoveAt(rosterFetches, i)
  /\ lastToast' = NoToast

\* C25: the roster cache holds data exactly when it holds a timestamp; every
\* successful roster fetch overwrites both in one step, with the roster and
\* the timestamp of that same fetch; and nothing else changes the cache.
C25_CacheWrittenAtomically ==
  [][ /\ employeeCache.data = None <=> employeeCache.timestamp = None
      /\ employeeCache'.data = None <=> employeeCache'.timestamp = None
      /\ \A i \in 1..MaxRosterFetches :
           C25_FetchSucceeds(i) =>
             employeeCache' = [ data |-> Some(employees'),
                                timestamp |-> Some(rosterFetches[i].start) ]
      /\ employeeCache' # employeeCache =>
           \E i \in 1..MaxRosterFetches : C25_FetchSucceeds(i) ]_vars

\* the cache entry of an earlier fetch has been overwritten by a fetch begun
\* after the entry had expired
C25_Witness ==
  /\ employeeCache.data # None
  /\ employeeCache.timestamp # None
  /\ Val(employeeCache.timestamp) >= CACHE_DURATION
  /\ employees = Val(employeeCache.data)
  /\ rosterFetches = <<>>

\* the TTL part of C26: an entry of the session storage that is not younger
\* than the TTL has not been used to populate the list
C26_ExpiredEntryNotUsed ==
  (sessionCache # None /\ Val(sessionCacheAge) >= CACHE_DURATION) =>
    listEmployees = <<>>

\* the refetch part of C26: when a roster fetch ends, either it has failed and
\* the entry and the list are as before, or the entry is the roster fetched;
\* nothing else writes the entry
C26_EntryFollowsFetches ==
  /\ listInFlight' < listInFlight =>
       \/ sessionCache' = sessionCache /\ listEmployees' = listEmployees
       \/ sessionCache' = Some(listEmployees')
  /\ sessionCache' # sessionCache =>
       /\ listInFlight' < listInFlight
       /\ sessionCache' = Some(listEmployees')

\* C26: the session-storage entry of the employee list populates the list on
\* load only while it is younger than the TTL; after every successful roster
\* fetch the entry equals the roster fetched, and a failed fetch leaves the
\* entry unchanged.
C26_SessionEntryInvalidation ==
  /\ []C26_ExpiredEntryNotUsed
  /\ [][C26_EntryFollowsFetches]_vars

\* the refetch part alone, as a property
C26_RefetchPart == [][C26_EntryFollowsFetches]_vars

\* C27: whenever the filtered list of the employee list page is not empty, the
\* page index lies between 1 and the number of pages and the page displayed
\* is not empty, also after a refetch has replaced the roster by a shorter one
\* while a later page was shown.
C27_PageIndexInRange ==
  listFilteredEmployees # <<>> =>
    /\ 1 <= currentPage
    /\ currentPage <= totalPages
    /\ paginatedEmployees # <<>>

\* C28: the select-all checkbox of the bulk page is shown checked exactly when
\* the filtered view is not empty and every employee of the filtered view is
\* in the Selection Set.
C28_SelectAllReflectsSelection ==
  ~isLoading =>
    ( SelectAllChecked <=>
        /\ filteredEmployees # <<>>
        /\ EmployeeIds(filteredEmployees) \subseteq selectedEmployees )

\* C29: no step of a bulk submission (the submit, its 2xx answer, its non-2xx
\* answer, its rejection) changes the roster cache, data or timestamp; and a
\* reload of the roster that finds the cache fresh sets the employee
\* collection to the cached records, whose lastStatus values are therefore
\* those from before the submission.
C29_SubmissionLeavesCacheAlone ==
  [][ /\ (SubmitStep \/ \E i \in 1..MaxMarkRequests : Settled(i)) =>
           employeeCache' = employeeCache
      /\ (isMobile' # isMobile /\ CacheFresh(now)) =>
           /\ employees' = Val(employeeCache.data)
           /\ employeeCache' = employeeCache
           /\ rosterFetches' = rosterFetches ]_vars

\* a submission has been committed and the cache, still fresh, holds the
\* records with the lastStatus values from before it
C29_Witness ==
  /\ lastToast.type = "success"
  /\ CacheFresh(now)
  /\ Len(employees) = Len(Val(employeeCache.data))
  /\ \E k \in 1..Len(employees) :
       employees[k].lastStatus # Val(employeeCache.data)[k].lastStatus

\* C30: every bulk submission that passes validation eventually leaves the
\* Submitting state: once its request settles (2xx answer, non-2xx answer with
\* or without a JSON body, rejection) the submitting flag is false again and
\* a later submit is possible.
C30_SubmittingEnds == isMarking ~> ~isMarking

\* a submission answered with a non-2xx status and a body that is not JSON
\* has settled, and the page is no longer Submitting
C30_Witness ==
  /\ ~isMarking
  /\ markRequests = <<>>
  /\ lastToast = Toast("error", "JSON syntax error")

====
